---- MODULE Spec2Model ----
(***************************************************************************)
(* A model of xarray_sweep (src/src/xarray_sweep/core.py): one call of the *)
(* sweep over the Cartesian product of its keyword axes, under each of its *)
(* three execution paths (the sequential loop, the thread pool, the dask   *)
(* task graph), followed by the stack/unstack assembly of the outputs.     *)
(***************************************************************************)
EXTENDS Integers, Sequences, FiniteSets, TLC

(***************************************************************************)
(* Bounds of the explored inputs.                                          *)
(***************************************************************************)
MaxParams == 2
MaxAxisLen == 2
MaxCombos == 4
MaxJobs == 2
MaxCpus == 2

VARIABLES
    entry,          \* the public name the caller used
    function,       \* the user callable (one of Functions)
    use_dask,       \* keyword option
    compute,        \* keyword option
    n_jobs,         \* keyword option
    params,         \* **params: the axes, in keyword order
    pc,             \* where the caller's thread is
    combinations,   \* list(product(*param_values))
    index,          \* pd.MultiIndex.from_tuples(combinations, names=param_names)
    tasks,          \* the Delayed nodes of the use_dask path
    futures,        \* the futures of the thread-pool path
    workers,        \* max_workers of the ThreadPoolExecutor (0: no pool)
    outputs,        \* the outputs list of the eager paths
    exc_info,       \* the exception travelling out of the with block
    result,         \* what the caller finally gets: a value or an error
    invocations,    \* per position of combinations: calls of function so far
    assembler_input \* the outputs list _assemble_outputs was called with

vars == <<entry, function, use_dask, compute, n_jobs, params, pc, combinations, index,
          tasks, futures, workers, outputs, exc_info, result, invocations,
          assembler_input>>

(***************************************************************************)
(* Values.                                                                 *)
(***************************************************************************)
None == [kind |-> "None"]

\* The record of the call of _assemble_outputs, if one was made.
NotCalled == [called |-> FALSE, outs |-> <<>>]
CalledWith(outs) == [called |-> TRUE, outs |-> outs]

\* Keyword names of the axes, in the order the caller writes them.
ParamNames == <<"a", "b", "c", "d">>

Range(s) == {s[i] : i \in DOMAIN s}

RECURSIVE Prod(_)
Prod(lens) == IF lens = <<>> THEN 1 ELSE Head(lens) * Prod(Tail(lens))

Lens(pools) == [i \in DOMAIN pools |-> Len(pools[i])]

\* The values an axis lists: two of them give equal and unequal entries, and
\* both orders. The engine only compares and sorts them.
AxisValues == {1, 2}

AxisSeqs == UNION {[1..n -> AxisValues] : n \in 0..MaxAxisLen}

ParamSpaces ==
    {p \in UNION {[1..n -> AxisSeqs] : n \in 0..MaxParams} :
        Prod(Lens(p)) <= MaxCombos}

\* The user functions explored. Each is side-effect free.
\*   "scalar"  : returns a number, distinct for distinct inputs (the values
\*               of the arguments as decimal digits, in keyword order)
\*   "dataset" : returns an xr.Dataset with one data variable, "value"
\*   "partial" : raises when one of its arguments is 2, else as "scalar"
Functions == {"scalar", "dataset", "partial"}

\* Exceptions. A ValueError is one of the engine or of a library it calls; a
\* UserError is an exception of the user function, of a type of its own: its
\* field origin tells the objects of different invocations apart; it is the
\* identity of the object, nothing the object says and nothing the engine
\* wrote into it.
ValueError(msg) == [kind |-> "error", type |-> "ValueError", msg |-> msg, origin |-> <<>>]
UserError(inputs) == [kind |-> "error", type |-> "UserError", msg |-> "", origin |-> inputs]

RECURSIVE Weighted(_, _)
Weighted(inputs, j) ==
    IF j = 0 THEN 0
    ELSE (IF ParamNames[j] \in DOMAIN inputs THEN inputs[ParamNames[j]] ELSE 0)
         + 10 * Weighted(inputs, j - 1)

\* function(**inputs): what the call returns, or the exception it raises.
Invoke(fn, inputs) ==
    LET number == Weighted(inputs, Len(ParamNames))
    IN  CASE fn = "scalar" -> [kind |-> "scalar", data |-> [f \in {""} |-> number]]
          [] fn = "dataset" -> [kind |-> "Dataset", data |-> [f \in {"value"} |-> number]]
          [] fn = "partial" ->
                IF \E nm \in DOMAIN inputs : inputs[nm] = 2
                THEN UserError(inputs)
                ELSE [kind |-> "scalar", data |-> [f \in {""} |-> number]]

(***************************************************************************)
(* _evaluate_combination                                                   *)
(***************************************************************************)
\* The error of the design's taxonomy: a wrapper of the engine around the
\* exception of the function, with the combination that failed.
EvaluationError(cause, combination) ==
    [kind |-> "error", type |-> "EvaluationError", cause |-> cause,
     combination |-> combination]

\* An evaluator that catches the exception of the function and raises the
\* wrapper in its place.
evaluate_and_wrap(fn, inputs) ==
    LET r == Invoke(fn, inputs)
    IN  IF r.kind = "error" THEN EvaluationError(r, inputs)
        ELSE IF r.kind = "Dataset"
             THEN [kind |-> "Dataset", data |-> r.data, coords |-> inputs]
             ELSE [kind |-> "DataArray", data |-> r.data, coords |-> inputs]

_evaluate_combination(fn, inputs) ==
    LET r == Invoke(fn, inputs)
    IN  IF r.kind = "error" THEN r
        ELSE IF r.kind = "Dataset"
             THEN [kind |-> "Dataset", data |-> r.data, coords |-> inputs]
             ELSE [kind |-> "DataArray", data |-> r.data, coords |-> inputs]

(***************************************************************************)
(* itertools.product, as its documented equivalent computes it:            *)
(*     result = [[]]                                                       *)
(*     for pool in pools: result = [x+[y] for x in result for y in pool]   *)
(***************************************************************************)
\* A product that lists each distinct value of a pool once.
RECURSIVE ExtendWithDistinct(_, _)
ExtendWithDistinct(x, pool) ==
    IF pool = <<>> THEN <<>>
    ELSE (IF Head(pool) \in Range(Tail(pool)) THEN <<>> ELSE <<Append(x, Head(pool))>>)
         \o ExtendWithDistinct(x, Tail(pool))

RECURSIVE ExtendWith(_, _)
ExtendWith(x, pool) ==
    IF pool = <<>> THEN <<>>
    ELSE <<Append(x, Head(pool))>> \o ExtendWith(x, Tail(pool))

\* A product whose first pool varies fastest,
\* [x+[y] for y in pool for x in result].
RECURSIVE ExtendAllFirstFastest(_, _)
ExtendAllFirstFastest(res, pool) ==
    IF pool = <<>> THEN <<>>
    ELSE [i \in DOMAIN res |-> Append(res[i], Head(pool))]
         \o ExtendAllFirstFastest(res, Tail(pool))

RECURSIVE ExtendAll(_, _)
ExtendAll(res, pool) ==
    IF res = <<>> THEN <<>>
    ELSE ExtendWith(Head(res), pool) \o ExtendAll(Tail(res), pool)

RECURSIVE product(_)
product(pools) ==
    IF pools = <<>> THEN << <<>> >>
    ELSE ExtendAll(product(SubSeq(pools, 1, Len(pools) - 1)), pools[Len(pools)])

\* dict(zip(param_names, combo, strict=True))
zip_dict(names, combo) ==
    [nm \in Range(names) |-> combo[CHOOSE j \in DOMAIN names : names[j] = nm]]

(***************************************************************************)
(* pd.MultiIndex.from_tuples: per level the sorted distinct values, and    *)
(* per row the position of its value in each level.                        *)
(***************************************************************************)
RECURSIVE SortedSeq(_)
SortedSeq(S) ==
    IF S = {} THEN <<>>
    ELSE LET m == CHOOSE x \in S : \A y \in S : x <= y
         IN  <<m>> \o SortedSeq(S \ {m})

PositionIn(level, v) == CHOOSE p \in DOMAIN level : level[p] = v

from_tuples(tuples, names) ==
    LET levels == [j \in DOMAIN names |->
                      SortedSeq({tuples[i][j] : i \in DOMAIN tuples})]
    IN  [names |-> names,
         levels |-> levels,
         codes |-> [i \in DOMAIN tuples |->
                      [j \in DOMAIN names |-> PositionIn(levels[j], tuples[i][j])]]]

(***************************************************************************)
(* _assemble_outputs: xr.concat along "stacked_dim", the index assigned as *)
(* the coordinate of that dimension, then unstack. unstack creates one     *)
(* dimension per level, filled with NaN (here -1), and writes row i of the *)
(* stacked data at the cell the codes of row i of the INDEX name; it       *)
(* raises on an index with a repeated row. The coordinates the outputs     *)
(* carry themselves are replaced by those of the index.                    *)
(***************************************************************************)
CodeSpace(levels) ==
    {c \in [DOMAIN levels -> 1..MaxAxisLen] :
        \A j \in DOMAIN levels : c[j] <= Len(levels[j])}

\* An assembler that reshapes the stacked data in row-major order of the
\* cells instead of placing each row by the codes of the index.
RECURSIVE RowMajorRank(_, _, _)
RowMajorRank(c, levels, j) ==
    IF j = 0 THEN 0
    ELSE RowMajorRank(c, levels, j - 1) * Len(levels[j]) + (c[j] - 1)

assemble_by_reshape(outs, idx) ==
    IF outs = <<>>
    THEN ValueError("must supply at least one object to concatenate")
    ELSE IF Len(outs) # Len(idx.codes)
    THEN ValueError("conflicting sizes for dimension 'stacked_dim'")
    ELSE IF \E i, k \in DOMAIN idx.codes : i # k /\ idx.codes[i] = idx.codes[k]
    THEN ValueError("Cannot unstack MultiIndex containing duplicates")
    ELSE [kind |-> outs[1].kind,
          dims |-> idx.names,
          coords |-> idx.levels,
          data |-> [c \in CodeSpace(idx.levels) |->
                      outs[RowMajorRank(c, idx.levels, Len(idx.levels)) + 1].data]]

\* An assembler without the uniqueness check of unstack: of the rows with
\* the same codes the last one written stays.
assemble_keep_last(outs, idx) ==
    IF outs = <<>>
    THEN ValueError("must supply at least one object to concatenate")
    ELSE IF Len(outs) # Len(idx.codes)
    THEN ValueError("conflicting sizes for dimension 'stacked_dim'")
    ELSE [kind |-> outs[1].kind,
          dims |-> idx.names,
          coords |-> idx.levels,
          data |-> [c \in CodeSpace(idx.levels) |->
                      IF \E i \in DOMAIN idx.codes : idx.codes[i] = c
                      THEN outs[CHOOSE i \in DOMAIN idx.codes :
                                  /\ idx.codes[i] = c
                                  /\ \A k \in DOMAIN idx.codes :
                                        idx.codes[k] = c => k <= i].data
                      ELSE [f \in DOMAIN outs[1].data |-> -1]]]

_assemble_outputs(outs, idx) ==
    IF outs = <<>>
    THEN ValueError("must supply at least one object to concatenate")
    ELSE IF Len(outs) # Len(idx.codes)
    THEN ValueError("conflicting sizes for dimension 'stacked_dim'")
    ELSE IF \E i, k \in DOMAIN idx.codes : i # k /\ idx.codes[i] = idx.codes[k]
    THEN ValueError("Cannot unstack MultiIndex containing duplicates")
    ELSE [kind |-> outs[1].kind,
          dims |-> idx.names,
          coords |-> idx.levels,
          data |-> [c \in CodeSpace(idx.levels) |->
                      IF \E i \in DOMAIN idx.codes : idx.codes[i] = c
                      THEN outs[CHOOSE i \in DOMAIN idx.codes : idx.codes[i] = c].data
                      ELSE [f \in DOMAIN outs[1].data |-> -1]]]

(***************************************************************************)
(* xarray_sweep, lines 72-82: validation and enumeration.                  *)
(***************************************************************************)
param_names == SubSeq(ParamNames, 1, Len(params))
param_values == params

\* A check that looks at the first axis only.
FirstAxisEmpty(values) == Len(values[1]) = 0

HasEmptyAxis(values) == \E i \in DOMAIN values : Len(values[i]) = 0

Valid == params # <<>> /\ ~HasEmptyAxis(param_values)

Zeros(n) == [i \in 1..n |-> 0]

Raise(e) ==
    /\ pc' = "raised"
    /\ result' = e

\* The state at the call, whatever the arguments are.
Fresh ==
    /\ combinations = <<>>
    /\ index = None
    /\ tasks = <<>>
    /\ futures = <<>>
    /\ workers = 0
    /\ outputs = <<>>
    /\ exc_info = None
    /\ result = None
    /\ invocations = <<>>
    /\ assembler_input = NotCalled

Init ==
    /\ entry = "xarray_sweep"
    /\ function \in Functions
    /\ use_dask \in BOOLEAN
    /\ compute \in BOOLEAN
    /\ n_jobs \in (0 - 1)..MaxJobs
    /\ params \in ParamSpaces
    /\ pc = "call"
    /\ combinations = <<>>
    /\ index = None
    /\ tasks = <<>>
    /\ futures = <<>>
    /\ workers = 0
    /\ outputs = <<>>
    /\ exc_info = None
    /\ result = None
    /\ invocations = <<>>
    /\ assembler_input = NotCalled

args == <<entry, function, use_dask, compute, n_jobs, params>>

\* lines 81-82
Enumerate ==
    \E combos \in {product(param_values)} :
        /\ combinations' = combos
        /\ index' = from_tuples(combos, param_names)
        /\ invocations' = Zeros(Len(combos))

\* A sweep without the check for an empty mapping: it goes on to the loop.
NoParamsIgnored ==
    /\ pc = "call"
    /\ params = <<>>
    /\ Enumerate
    /\ outputs' = <<>>
    /\ pc' = "sequential"
    /\ UNCHANGED <<args, tasks, futures, workers, exc_info, result,
                   assembler_input>>

\* lines 72-73
RaiseNoParams ==
    /\ pc = "call"
    /\ params = <<>>
    /\ Raise(ValueError("At least one parameter sweep must be provided."))
    /\ UNCHANGED <<args, combinations, index, tasks, futures, workers, outputs,
                   exc_info, invocations, assembler_input>>

\* lines 75-79
RaiseEmptyAxis ==
    /\ pc = "call"
    /\ params # <<>>
    /\ HasEmptyAxis(param_values)
    /\ Raise(ValueError("Parameter sweeps must contain at least one value each."))
    /\ UNCHANGED <<args, combinations, index, tasks, futures, workers, outputs,
                   exc_info, invocations, assembler_input>>

\* line 102
all_inputs ==
    [i \in DOMAIN combinations |-> zip_dict(param_names, combinations[i])]

Pending(inputs) == [inputs |-> inputs, state |-> "PENDING", outcome |-> None]

\* A graph construction that calls the evaluator while building the nodes,
\* delayed(_evaluate_combination(function, inputs)).
BuildGraphEager ==
    /\ pc = "call"
    /\ Valid
    /\ use_dask
    /\ combinations' = product(param_values)
    /\ index' = from_tuples(product(param_values), param_names)
    /\ invocations' = [i \in DOMAIN product(param_values) |-> 1]
    /\ tasks' = [i \in DOMAIN product(param_values) |->
                    [inputs |-> zip_dict(param_names, product(param_values)[i]),
                     state |-> "FINISHED",
                     outcome |-> _evaluate_combination(function,
                                    zip_dict(param_names, product(param_values)[i]))]]
    /\ pc' = IF compute THEN "compute" ELSE "handle"
    /\ UNCHANGED <<args, futures, workers, outputs, exc_info, result,
                   assembler_input>>

\* A sweep that sets up its thread pool before it looks at use_dask.
BuildGraphWithPool ==
    /\ pc = "call"
    /\ Valid
    /\ use_dask
    /\ Enumerate
    /\ IF n_jobs # 1 /\ n_jobs # -1 /\ n_jobs <= 0
       THEN /\ Raise(ValueError("max_workers must be greater than 0"))
            /\ UNCHANGED <<tasks, workers>>
       ELSE /\ workers' = IF n_jobs = -1 THEN 1 ELSE n_jobs
            /\ tasks' = [i \in DOMAIN product(param_values) |->
                           Pending(zip_dict(param_names, product(param_values)[i]))]
            /\ pc' = IF compute THEN "compute" ELSE "handle"
            /\ UNCHANGED result
    /\ UNCHANGED <<args, futures, outputs, exc_info, assembler_input>>

\* lines 84-93, and 94-97 up to the call of result.compute(): the graph is
\* built, one Delayed node per combination and one node for the assembler;
\* with compute=False the Delayed handle is what the call returns.
BuildGraph ==
    /\ pc = "call"
    /\ Valid
    /\ use_dask
    /\ Enumerate
    /\ tasks' = [i \in DOMAIN product(param_values) |->
                    Pending(zip_dict(param_names, product(param_values)[i]))]
    /\ pc' = IF compute THEN "compute" ELSE "handle"
    /\ UNCHANGED <<args, futures, workers, outputs, exc_info, result,
                   assembler_input>>

\* A sweep without the check of compute: it goes on to the loop.
ComputeFalseIgnored ==
    /\ pc = "call"
    /\ Valid
    /\ ~use_dask
    /\ ~compute
    /\ Enumerate
    /\ outputs' = <<>>
    /\ pc' = "sequential"
    /\ UNCHANGED <<args, tasks, futures, workers, exc_info, result,
                   assembler_input>>

\* lines 99-100
RaiseComputeFalse ==
    /\ pc = "call"
    /\ Valid
    /\ ~use_dask
    /\ ~compute
    /\ Enumerate
    /\ Raise(ValueError("compute=False requires use_dask=True."))
    /\ UNCHANGED <<args, tasks, futures, workers, outputs, exc_info,
                   assembler_input>>

\* lines 104-110: the pool is created and every combination is submitted.
\* os.cpu_count() is the machine's, a positive number here. The constructor
\* of ThreadPoolExecutor raises ValueError for max_workers <= 0, which leaves
\* xarray_sweep before anything is submitted.
SubmitAll ==
    /\ pc = "call"
    /\ Valid
    /\ ~use_dask
    /\ compute
    /\ n_jobs # 1
    /\ Enumerate
    /\ \E cpu_count \in 1..MaxCpus :
          LET max_workers == IF n_jobs = -1 THEN cpu_count ELSE n_jobs
          IN  IF max_workers <= 0
              THEN /\ Raise(ValueError("max_workers must be greater than 0"))
                   /\ UNCHANGED <<futures, workers>>
              ELSE /\ workers' = max_workers
                   /\ futures' = [i \in DOMAIN product(param_values) |->
                          Pending(zip_dict(param_names, product(param_values)[i]))]
                   /\ pc' = "collect"
                   /\ UNCHANGED result
    /\ UNCHANGED <<args, tasks, outputs, exc_info, assembler_input>>

\* lines 113-115
StartSequential ==
    /\ pc = "call"
    /\ Valid
    /\ ~use_dask
    /\ compute
    /\ n_jobs = 1
    /\ Enumerate
    /\ outputs' = <<>>
    /\ pc' = IF product(param_values) = <<>> THEN "assemble" ELSE "sequential"
    /\ UNCHANGED <<args, tasks, futures, workers, exc_info, result,
                   assembler_input>>

\* A loop that goes on after a failure and raises the first one at its end.
SequentialStepRaiseAtEnd ==
    /\ pc = "sequential"
    /\ LET i == Len(outputs) + 1
           r == _evaluate_combination(function, all_inputs[i])
           first == IF exc_info # None THEN exc_info
                    ELSE IF r.kind = "error" THEN r ELSE None
       IN  /\ invocations' = [invocations EXCEPT ![i] = @ + 1]
           /\ outputs' = Append(outputs, r)
           /\ exc_info' = first
           /\ IF i < Len(all_inputs)
              THEN pc' = "sequential" /\ UNCHANGED result
              ELSE IF first # None
                   THEN Raise(first)
                   ELSE pc' = "assemble" /\ UNCHANGED result
    /\ UNCHANGED <<args, combinations, index, tasks, futures, workers,
                   assembler_input>>

\* lines 116-117: one iteration of the loop
SequentialStep ==
    /\ pc = "sequential"
    /\ LET i == Len(outputs) + 1
           r == _evaluate_combination(function, all_inputs[i])
       IN  /\ invocations' = [invocations EXCEPT ![i] = @ + 1]
           /\ IF r.kind = "error"
              THEN /\ Raise(r)
                   /\ UNCHANGED outputs
              ELSE /\ outputs' = Append(outputs, r)
                   /\ pc' = IF i = Len(all_inputs) THEN "assemble" ELSE "sequential"
                   /\ UNCHANGED result
    /\ UNCHANGED <<args, combinations, index, tasks, futures, workers, exc_info,
                   assembler_input>>

(***************************************************************************)
(* The worker threads of the ThreadPoolExecutor: at most max_workers of    *)
(* them, each taking the oldest queued work item and running it to the end.*)
(***************************************************************************)
Running == {i \in DOMAIN futures : futures[i].state = "RUNNING"}
Queued == {i \in DOMAIN futures : futures[i].state = "PENDING"}

\* A pool that starts a thread for every queued item, whatever max_workers is.
WorkerStartUnbounded ==
    /\ Queued # {}
    /\ LET i == CHOOSE q \in Queued : \A o \in Queued : q <= o
       IN  /\ futures' = [futures EXCEPT ![i].state = "RUNNING"]
           /\ invocations' = [invocations EXCEPT ![i] = @ + 1]
    /\ UNCHANGED <<args, pc, combinations, index, tasks, workers, outputs,
                   exc_info, result, assembler_input>>

\* A pool that keeps one of its max_workers slots unused.
WorkerStartOneSlotShort ==
    /\ Queued # {}
    /\ Cardinality(Running) < workers - 1
    /\ LET i == CHOOSE q \in Queued : \A o \in Queued : q <= o
       IN  /\ futures' = [futures EXCEPT ![i].state = "RUNNING"]
           /\ invocations' = [invocations EXCEPT ![i] = @ + 1]
    /\ UNCHANGED <<args, pc, combinations, index, tasks, workers, outputs,
                   exc_info, result, invocations, assembler_input>>

WorkerStart ==
    /\ Queued # {}
    /\ Cardinality(Running) < workers
    /\ LET i == CHOOSE q \in Queued : \A o \in Queued : q <= o
       IN  /\ futures' = [futures EXCEPT ![i].state = "RUNNING"]
           /\ invocations' = [invocations EXCEPT ![i] = @ + 1]
    /\ UNCHANGED <<args, pc, combinations, index, tasks, workers, outputs,
                   exc_info, result, assembler_input>>

WorkerFinish ==
    /\ \E i \in Running :
          futures' = [futures EXCEPT
                         ![i].state = "FINISHED",
                         ![i].outcome = _evaluate_combination(function, futures[i].inputs)]
    /\ UNCHANGED <<args, pc, combinations, index, tasks, workers, outputs,
                   exc_info, result, invocations, assembler_input>>

\* A collection in completion order, as concurrent.futures.as_completed gives.
CollectAsCompleted ==
    /\ pc = "collect"
    /\ \E i \in DOMAIN futures :
          /\ futures[i].state = "FINISHED"
          /\ futures[i].outcome \notin Range(outputs)
          /\ IF futures[i].outcome.kind = "error"
             THEN /\ exc_info' = futures[i].outcome
                  /\ pc' = "shutdown"
                  /\ UNCHANGED outputs
             ELSE /\ outputs' = Append(outputs, futures[i].outcome)
                  /\ pc' = IF Len(outputs) + 1 = Len(futures) THEN "shutdown" ELSE "collect"
                  /\ UNCHANGED exc_info
    /\ UNCHANGED <<args, combinations, index, tasks, futures, workers, result,
                   invocations, assembler_input>>

\* A collection that raises the failure that surfaces first in time, and
\* otherwise takes the results in list order.
CollectFirstFailure ==
    /\ pc = "collect"
    /\ IF \E j \in DOMAIN futures :
             futures[j].state = "FINISHED" /\ futures[j].outcome.kind = "error"
       THEN /\ \E j \in DOMAIN futures :
                  /\ futures[j].state = "FINISHED"
                  /\ futures[j].outcome.kind = "error"
                  /\ exc_info' = futures[j].outcome
             /\ pc' = "shutdown"
             /\ UNCHANGED outputs
       ELSE LET i == Len(outputs) + 1
            IN  /\ futures[i].state = "FINISHED"
                /\ outputs' = Append(outputs, futures[i].outcome)
                /\ pc' = IF i = Len(futures) THEN "shutdown" ELSE "collect"
                /\ UNCHANGED exc_info
    /\ UNCHANGED <<args, combinations, index, tasks, futures, workers, result,
                   invocations, assembler_input>>

\* line 112: f.result() of the next future of the list, in list order
Collect ==
    /\ pc = "collect"
    /\ LET i == Len(outputs) + 1
       IN  /\ futures[i].state = "FINISHED"
           /\ IF futures[i].outcome.kind = "error"
              THEN /\ exc_info' = futures[i].outcome
                   /\ pc' = "shutdown"
                   /\ UNCHANGED outputs
              ELSE /\ outputs' = Append(outputs, futures[i].outcome)
                   /\ pc' = IF i = Len(futures) THEN "shutdown" ELSE "collect"
                   /\ UNCHANGED exc_info
    /\ UNCHANGED <<args, combinations, index, tasks, futures, workers, result,
                   invocations, assembler_input>>

\* A with block left by executor.shutdown(wait=False): it does not wait for
\* the work still queued or running.
ShutdownNoWait ==
    /\ pc = "shutdown"
    /\ IF exc_info # None
       THEN Raise(exc_info)
       ELSE pc' = "assemble" /\ UNCHANGED result
    /\ UNCHANGED <<args, combinations, index, tasks, futures, workers, outputs,
                   exc_info, invocations, assembler_input>>

\* A with block that swallows the exception of a failed future.
ShutdownSwallow ==
    /\ pc = "shutdown"
    /\ \A i \in DOMAIN futures : futures[i].state = "FINISHED"
    /\ pc' = "assemble"
    /\ UNCHANGED <<args, combinations, index, tasks, futures, workers, outputs,
                   exc_info, result, invocations, assembler_input>>

\* line 106: leaving the with block is executor.shutdown(wait=True), which
\* joins the worker threads; they leave once the queue is drained.
Shutdown ==
    /\ pc = "shutdown"
    /\ \A i \in DOMAIN futures : futures[i].state = "FINISHED"
    /\ IF exc_info # None
       THEN Raise(exc_info)
       ELSE pc' = "assemble" /\ UNCHANGED result
    /\ UNCHANGED <<args, combinations, index, tasks, futures, workers, outputs,
                   exc_info, invocations, assembler_input>>

\* line 119
Assemble ==
    /\ pc = "assemble"
    /\ assembler_input' = CalledWith(outputs)
    /\ LET r == _assemble_outputs(outputs, index)
       IN  /\ result' = r
           /\ pc' = IF r.kind = "error" THEN "raised" ELSE "returned"
    /\ UNCHANGED <<args, combinations, index, tasks, futures, workers, outputs,
                   exc_info, invocations>>

(***************************************************************************)
(* The use_dask path. The holder of the handle calls its compute(); the    *)
(* graph runtime then runs the nodes of the combinations in an order of    *)
(* its own, and the assembler node once all of its inputs are there. The   *)
(* first node to raise ends compute() with that exception. Nodes run one   *)
(* at a time here: the function is side-effect free, so of a concurrent    *)
(* run only the order in which the nodes finish shows.                     *)
(***************************************************************************)
Materialize ==
    /\ pc = "handle"
    /\ pc' = "compute"
    /\ UNCHANGED <<args, combinations, index, tasks, futures, workers, outputs,
                   exc_info, result, invocations, assembler_input>>

\* A graph whose nodes are keyed by their arguments (delayed(..., pure=True)):
\* nodes with equal inputs are one node, run once.
GraphEvaluateMerged ==
    /\ pc = "compute"
    /\ \E i \in DOMAIN tasks :
          /\ tasks[i].state = "PENDING"
          /\ LET r == _evaluate_combination(function, tasks[i].inputs)
             IN  /\ tasks' = [k \in DOMAIN tasks |->
                                IF tasks[k].inputs = tasks[i].inputs
                                THEN [tasks[k] EXCEPT !.state = "FINISHED", !.outcome = r]
                                ELSE tasks[k]]
                 /\ invocations' = [invocations EXCEPT ![i] = @ + 1]
                 /\ IF r.kind = "error"
                    THEN Raise(r)
                    ELSE UNCHANGED <<pc, result>>
    /\ UNCHANGED <<args, combinations, index, futures, workers, outputs,
                   exc_info, assembler_input>>

GraphEvaluate ==
    /\ pc = "compute"
    /\ \E i \in DOMAIN tasks :
          /\ tasks[i].state = "PENDING"
          /\ LET r == _evaluate_combination(function, tasks[i].inputs)
             IN  /\ tasks' = [tasks EXCEPT ![i].state = "FINISHED", ![i].outcome = r]
                 /\ invocations' = [invocations EXCEPT ![i] = @ + 1]
                 /\ IF r.kind = "error"
                    THEN Raise(r)
                    ELSE UNCHANGED <<pc, result>>
    /\ UNCHANGED <<args, combinations, index, futures, workers, outputs,
                   exc_info, assembler_input>>

\* An assembler node that is handed the node results last-first.
GraphAssembleReversed ==
    /\ pc = "compute"
    /\ \A i \in DOMAIN tasks : tasks[i].state = "FINISHED"
    /\ LET outs == [i \in DOMAIN tasks |-> tasks[Len(tasks) + 1 - i].outcome]
           r == _assemble_outputs(outs, index)
       IN  /\ assembler_input' = CalledWith(outs)
           /\ result' = r
           /\ pc' = IF r.kind = "error" THEN "raised" ELSE "returned"
    /\ UNCHANGED <<args, combinations, index, tasks, futures, workers, outputs,
                   exc_info, invocations>>

\* line 91: the node delayed(_assemble_outputs)(tasks, index)
GraphAssemble ==
    /\ pc = "compute"
    /\ \A i \in DOMAIN tasks : tasks[i].state = "FINISHED"
    /\ LET outs == [i \in DOMAIN tasks |-> tasks[i].outcome]
           r == _assemble_outputs(outs, index)
       IN  /\ assembler_input' = CalledWith(outs)
           /\ result' = r
           /\ pc' = IF r.kind = "error" THEN "raised" ELSE "returned"
    /\ UNCHANGED <<args, combinations, index, tasks, futures, workers, outputs,
                   exc_info, invocations>>

Next ==
    \/ RaiseNoParams
    \/ RaiseEmptyAxis
    \/ BuildGraph
    \/ RaiseComputeFalse
    \/ SubmitAll
    \/ StartSequential
    \/ SequentialStep
    \/ WorkerStart
    \/ WorkerFinish
    \/ Collect
    \/ Shutdown
    \/ Assemble
    \/ Materialize
    \/ GraphEvaluate
    \/ GraphAssemble

Spec == Init /\ [][Next]_vars

(***************************************************************************)
(* The three public names, lines 122-128: grid_search and gridSearch take  *)
(* (function, **kwargs) and return xarray_sweep(function, **kwargs). The   *)
(* keywords of the caller, options and axes alike, are in the variables    *)
(* use_dask, compute, n_jobs and params; forwarding binds them to the      *)
(* parameters of xarray_sweep.                                             *)
(***************************************************************************)
EntryPoints == {"xarray_sweep", "grid_search", "gridSearch"}

InitEntryPoints ==
    /\ entry \in EntryPoints
    /\ function \in Functions
    /\ use_dask \in BOOLEAN
    /\ compute \in BOOLEAN
    /\ n_jobs \in (0 - 1)..MaxJobs
    /\ params \in ParamSpaces
    /\ pc = IF entry = "xarray_sweep" THEN "call" ELSE "alias"
    /\ Fresh

\* An alias that declares the axes only, grid_search(function, **params),
\* and so calls xarray_sweep with its default options.
ForwardAxesOnly ==
    /\ pc = "alias"
    /\ pc' = "call"
    /\ use_dask' = FALSE
    /\ compute' = TRUE
    /\ n_jobs' = 1
    /\ UNCHANGED <<entry, function, params, combinations, index, tasks, futures,
                   workers, outputs, exc_info, result, invocations,
                   assembler_input>>

\* lines 123-124 and 127-128
Forward ==
    /\ pc = "alias"
    /\ pc' = "call"
    /\ UNCHANGED <<args, combinations, index, tasks, futures, workers, outputs,
                   exc_info, result, invocations, assembler_input>>

NextEntryPoints == Forward \/ Next

SpecEntryPoints == InitEntryPoints /\ [][NextEntryPoints]_vars

(***************************************************************************)
(* The eager calls, lines 102-119, with their scheduling: the calling      *)
(* thread always takes its next step; a pool thread takes the next queued  *)
(* item whenever a slot is free; a call of the function that has started   *)
(* comes to its end.                                                       *)
(***************************************************************************)
InitEager == Init /\ ~use_dask

MainThread ==
    \/ RaiseNoParams
    \/ RaiseEmptyAxis
    \/ RaiseComputeFalse
    \/ SubmitAll
    \/ StartSequential
    \/ SequentialStep
    \/ Collect
    \/ Shutdown
    \/ Assemble

NextEager == MainThread \/ WorkerStart \/ WorkerFinish

SpecEagerFair ==
    /\ InitEager
    /\ [][NextEager]_vars
    /\ WF_vars(MainThread)
    /\ WF_vars(WorkerStart)
    /\ WF_vars(WorkerFinish)

TypeOK ==
    /\ pc \in {"alias", "call", "sequential", "collect", "shutdown", "assemble",
               "handle", "compute", "returned", "raised"}
    /\ result.kind \in {"None", "error", "DataArray", "Dataset"}
    /\ Len(invocations) \in {0, Len(combinations)}

(***************************************************************************)
(* The sequential strategy as a function of its arguments: the loop of     *)
(* lines 114-117 followed by the assembly of line 119.                     *)
(***************************************************************************)
RECURSIVE SequentialLoop(_, _, _)
SequentialLoop(fn, inputs_list, outs) ==
    IF inputs_list = <<>> THEN [kind |-> "outputs", outs |-> outs]
    ELSE LET r == _evaluate_combination(fn, Head(inputs_list))
         IN  IF r.kind = "error" THEN r
             ELSE SequentialLoop(fn, Tail(inputs_list), Append(outs, r))

SequentialSweep(fn, values, names) ==
    LET combos == product(values)
        run == SequentialLoop(fn, [i \in DOMAIN combos |-> zip_dict(names, combos[i])], <<>>)
    IN  IF run.kind = "error" THEN run
        ELSE _assemble_outputs(run.outs, from_tuples(combos, names))

(***************************************************************************)
(* Properties.                                                             *)
(***************************************************************************)
Done == pc \in {"returned", "raised"}

SomeAxisEmpty == \E i \in DOMAIN params : params[i] = <<>>
ValidAxes == params # <<>> /\ ~SomeAxisEmpty

NoInvocation == \A i \in DOMAIN invocations : invocations[i] = 0

\* out.sel(**inputs): selection of one cell by its coordinate labels
Sel(res, inputs) ==
    res.data[[j \in DOMAIN res.dims |-> PositionIn(res.coords[j], inputs[res.dims[j]])]]

\* the coordinate labels of cell c
CellLabels(res, c) ==
    [nm \in Range(res.dims) |->
        LET j == CHOOSE k \in DOMAIN res.dims : res.dims[k] = nm
        IN  res.coords[j][c[j]]]

\* C1: the result a sweep returns holds, at the coordinates of every
\* combination, the value the function returns for that combination (as a
\* DataArray for a scalar, as a Dataset with the same fields for a Dataset),
\* and every cell of the result holds the value of its own coordinates.
C1_ValuesAtTheirCoordinates ==
    pc = "returned" =>
        /\ \A i \in DOMAIN combinations :
              LET inp == zip_dict(param_names, combinations[i])
                  r == Invoke(function, inp)
              IN  /\ r.kind # "error"
                  /\ result.kind = (IF r.kind = "Dataset" THEN "Dataset" ELSE "DataArray")
                  /\ Sel(result, inp) = r.data
        /\ \A c \in DOMAIN result.data :
              result.data[c] = Invoke(function, CellLabels(result, c)).data

C1_Witness ==
    /\ pc = "returned"
    /\ function = "dataset"
    /\ params = << <<2, 1>>, <<1, 2>> >>

\* C2 as stated: every sweep on the n_jobs # 1 branch ends as the sequential
\* sweep of the same function and axes ends.
C2_AnyWorkerCount ==
    (ValidAxes /\ ~use_dask /\ compute /\ n_jobs # 1 /\ Done)
        => result = SequentialSweep(function, param_values, param_names)

\* C2 amended: with n_jobs = -1 or n_jobs >= 2 the thread-pool sweep ends
\* as the sequential sweep (n_jobs = 1) of the same function and axes ends,
\* for every order in which the workers finish, and the outputs it collects
\* are in the order of the combinations: the i-th output is the evaluation
\* of the i-th combination.
C2_ParallelAsSequential ==
    (ValidAxes /\ ~use_dask /\ compute) =>
        /\ (n_jobs = 1 /\ Done)
              => result = SequentialSweep(function, param_values, param_names)
        /\ ((n_jobs = -1 \/ n_jobs >= 2) /\ Done)
              => result = SequentialSweep(function, param_values, param_names)
        /\ \A i \in DOMAIN outputs :
              outputs[i] = _evaluate_combination(function, all_inputs[i])
        /\ assembler_input.called
              => assembler_input.outs =
                    [i \in DOMAIN combinations |->
                        _evaluate_combination(function, all_inputs[i])]

C2_Witness ==
    /\ pc = "returned"
    /\ ~use_dask
    /\ workers = 2
    /\ function = "scalar"
    /\ Len(combinations) = 4

\* C3: the result of materializing the handle of use_dask=True,
\* compute=False is the result the eager sweep of the same function and
\* axes returns, whatever order the nodes ran in; where the eager sweep
\* raises, materializing raises.
C3_MaterializedAsEager ==
    (use_dask /\ ~compute /\ Done /\ ValidAxes) =>
        LET eager == SequentialSweep(function, param_values, param_names)
        IN  IF eager.kind # "error" THEN result = eager ELSE result.kind = "error"

C3_Witness ==
    /\ pc = "returned"
    /\ use_dask
    /\ ~compute
    /\ params = << <<1, 2>>, <<2, 1>> >>

\* C4: while the handle of use_dask=True, compute=False is held and not
\* materialized, the function has not been invoked for any combination, no
\* node has run and the assembler has not been called.
C4_NoWorkBeforeMaterialize ==
    pc = "handle" =>
        /\ NoInvocation
        /\ \A i \in DOMAIN tasks : tasks[i].state = "PENDING" /\ tasks[i].outcome = None
        /\ ~assembler_input.called
        /\ result = None

C4_Witness ==
    /\ pc = "handle"
    /\ Len(tasks) = 4

\* C5: when the function raises for a combination of the sweep, the sweep
\* (the call, or the materialization of its handle) never returns a result
\* and ends only with an error; and the assembler is only ever called with
\* one output per combination.
C5_FailFast ==
    /\ (\E i \in DOMAIN combinations :
            Invoke(function, zip_dict(param_names, combinations[i])).kind = "error")
          => /\ pc # "returned"
             /\ Done => result.kind = "error"
             /\ ~assembler_input.called
    /\ assembler_input.called => Len(assembler_input.outs) = Len(combinations)

C5_Witness ==
    /\ pc = "raised"
    /\ result.type = "UserError"
    /\ workers = 2
    /\ Len(outputs) = 1

\* C6: the function is invoked at most once per position of the
\* combinations, and once the evaluations are over (the assembler is called,
\* or the sweep has returned) exactly once per position, positions holding
\* equal combinations included.
C6_OncePerCombination ==
    /\ \A i \in DOMAIN invocations : invocations[i] <= 1
    /\ (assembler_input.called \/ pc = "returned")
          => /\ Len(invocations) = Len(combinations)
             /\ \A i \in DOMAIN combinations : invocations[i] = 1

C6_Witness ==
    /\ assembler_input.called
    /\ use_dask
    /\ \E i, k \in DOMAIN combinations : i # k /\ combinations[i] = combinations[k]

\* C7: with valid axes, compute=False and use_dask=False the call raises
\* the ValueError of line 100, whatever n_jobs is, and the function has not
\* been invoked.
C7_ComputeFalseNeedsDask ==
    (ValidAxes /\ ~use_dask /\ ~compute /\ pc # "call") =>
        /\ pc = "raised"
        /\ result = ValueError("compute=False requires use_dask=True.")
        /\ NoInvocation
        /\ futures = <<>> /\ outputs = <<>> /\ ~assembler_input.called

C7_Witness ==
    /\ pc = "raised"
    /\ ValidAxes
    /\ ~use_dask
    /\ ~compute
    /\ n_jobs = 2

\* C8: with an axis without values, in any position, the call raises the
\* ValueError of line 79 for every use_dask, compute and n_jobs; the
\* function is not invoked, no graph is built and no handle is returned.
C8_EmptyAxisRejected ==
    (params # <<>> /\ SomeAxisEmpty /\ pc # "call") =>
        /\ pc = "raised"
        /\ result = ValueError("Parameter sweeps must contain at least one value each.")
        /\ invocations = <<>>
        /\ tasks = <<>> /\ futures = <<>> /\ ~assembler_input.called

C8_Witness ==
    /\ pc = "raised"
    /\ use_dask
    /\ ~compute
    /\ Len(params) = 2
    /\ params[1] # <<>>
    /\ params[2] = <<>>

\* C9: without any axis the call raises the ValueError of line 73 for every
\* use_dask, compute and n_jobs, and the function is not invoked.
C9_NoAxesRejected ==
    (params = <<>> /\ pc # "call") =>
        /\ pc = "raised"
        /\ result = ValueError("At least one parameter sweep must be provided.")
        /\ invocations = <<>>
        /\ tasks = <<>> /\ futures = <<>> /\ ~assembler_input.called

C9_Witness ==
    /\ pc = "raised"
    /\ params = <<>>
    /\ n_jobs = 0

RECURSIVE Sum(_)
Sum(s) == IF s = <<>> THEN 0 ELSE Head(s) + Sum(Tail(s))

\* C10: for valid axes the number of combinations is the product of the
\* lengths of the axes, and so are the number of evaluations made and the
\* number of outputs handed to the assembler.
C10_ProductOfCardinalities ==
    (ValidAxes /\ pc # "call") =>
        /\ Len(combinations) = Prod(Lens(params))
        /\ assembler_input.called
              => /\ Len(assembler_input.outs) = Prod(Lens(params))
                 /\ Sum(invocations) = Prod(Lens(params))

C10_Witness ==
    /\ assembler_input.called
    /\ Len(params) = 2
    /\ Len(params[1]) = 2
    /\ Len(params[2]) = 2
    /\ params[2][1] = params[2][2]

(***************************************************************************)
(* What a call of xarray_sweep can end with, as a function of its          *)
(* arguments alone (lines 72-119). With use_dask the runtime's order       *)
(* decides which of several failures is the one raised.                    *)
(***************************************************************************)
Failures(fn, values, names) ==
    {e \in {Invoke(fn, zip_dict(names, product(values)[i])) : i \in DOMAIN product(values)} :
        e.kind = "error"}

SweepResults(fn, ud, cp, nj, values, names) ==
    IF values = <<>>
    THEN {ValueError("At least one parameter sweep must be provided.")}
    ELSE IF \E i \in DOMAIN values : values[i] = <<>>
    THEN {ValueError("Parameter sweeps must contain at least one value each.")}
    ELSE IF ud
    THEN (IF Failures(fn, values, names) # {}
          THEN Failures(fn, values, names)
          ELSE {SequentialSweep(fn, values, names)})
    ELSE IF ~cp
    THEN {ValueError("compute=False requires use_dask=True.")}
    ELSE IF nj # 1 /\ nj # -1 /\ nj <= 0
    THEN {ValueError("max_workers must be greater than 0")}
    ELSE {SequentialSweep(fn, values, names)}

\* C11: grid_search and gridSearch forward their arguments unchanged: the
\* step out of the alias enters xarray_sweep with the caller's function,
\* options and axes and nothing done yet; whatever name was used, a sweep
\* ends with a result xarray_sweep has for those arguments, and it
\* enumerates the combinations of those axes.
C11_AliasesForward ==
    /\ [][pc = "alias" =>
            /\ pc' = "call"
            /\ UNCHANGED <<entry, function, use_dask, compute, n_jobs, params>>
            /\ Fresh']_vars
    /\ [](Done => result \in SweepResults(function, use_dask, compute, n_jobs,
                                          param_values, param_names))
    /\ []((pc \notin {"alias", "call"} /\ ValidAxes)
            => combinations = product(param_values))

C11_Witness ==
    /\ entry = "gridSearch"
    /\ pc = "returned"
    /\ use_dask
    /\ ~compute
    /\ Len(combinations) = 4

\* The number of combinations over which the value of axis j stays the same.
Stride(j) == Prod(Lens(SubSeq(params, j + 1, Len(params))))

\* The combination at position k of the nested enumeration, the last axis
\* varying fastest, as keyword arguments in the order of the axes.
NestedInputs(k) ==
    [nm \in Range(param_names) |->
        LET j == CHOOSE x \in DOMAIN param_names : param_names[x] = nm
        IN  params[j][(((k - 1) \div Stride(j)) % Len(params[j])) + 1]]

\* C12: the combinations are the Cartesian product of the axes in nested
\* order, the last axis varying fastest, each tuple aligned with the names
\* of the axes in keyword order; the rows of the index, the nodes of the
\* graph, the futures of the pool and the outputs of the loop all follow
\* that order.
C12_NestedOrder ==
    (ValidAxes /\ pc \notin {"alias", "call"}) =>
        /\ DOMAIN combinations = 1..Prod(Lens(params))
        /\ \A k \in DOMAIN combinations :
              /\ \A j \in DOMAIN params : combinations[k][j] = NestedInputs(k)[ParamNames[j]]
              /\ \A j \in DOMAIN params :
                    index.levels[j][index.codes[k][j]] = NestedInputs(k)[index.names[j]]
        /\ \A k \in DOMAIN tasks : tasks[k].inputs = NestedInputs(k)
        /\ \A k \in DOMAIN futures : futures[k].inputs = NestedInputs(k)
        /\ \A k \in DOMAIN outputs : outputs[k].coords = NestedInputs(k)

C12_Witness ==
    /\ pc = "collect"
    /\ params = << <<1, 2>>, <<2, 1>> >>
    /\ Len(outputs) = 2

Sequential == ValidAxes /\ ~use_dask /\ compute /\ n_jobs = 1

\* C13: in the sequential loop the positions are evaluated in order, one
\* after the other; when the function raises at position i the sweep ends
\* there with that exception: positions up to i have been evaluated once,
\* no position before i failed and no position after i is evaluated, then
\* or later.
C13_SequentialAbortsAtFailure ==
    Sequential =>
        LET failed == pc = "raised" /\ result.type = "UserError"
            reached == Len(outputs) + (IF failed THEN 1 ELSE 0)
        IN  /\ \A k \in DOMAIN invocations :
                  invocations[k] = IF k <= reached THEN 1 ELSE 0
            /\ failed =>
                  /\ reached \in DOMAIN all_inputs
                  /\ result = Invoke(function, all_inputs[reached])
                  /\ \A k \in 1..(reached - 1) :
                        Invoke(function, all_inputs[k]).kind # "error"

C13_Witness ==
    /\ Sequential
    /\ pc = "raised"
    /\ Len(outputs) = 1
    /\ Len(combinations) = 4

\* C14: in the thread-pool strategy every combination is in the pool before
\* the first result is collected, and none is cancelled: when the sweep
\* has raised or returned, every future has run to its end, each
\* combination has been invoked once and nothing is running or queued;
\* this holds when an evaluation failed too.
C14_PoolRunsEverythingToTheEnd ==
    (ValidAxes /\ ~use_dask /\ compute /\ workers > 0) =>
        /\ Len(futures) = Len(combinations)
        /\ (Done \/ pc = "assemble") =>
              /\ Running = {} /\ Queued = {}
              /\ \A i \in DOMAIN futures :
                    /\ futures[i].state = "FINISHED"
                    /\ futures[i].outcome = _evaluate_combination(function, all_inputs[i])
                    /\ invocations[i] = 1

C14_Witness ==
    /\ pc = "raised"
    /\ workers = 2
    /\ Len(futures) = 4
    /\ Len(outputs) = 0
    /\ futures[3].outcome.kind = "DataArray"

\* C15: with n_jobs = N > 1 the pool has N workers and never more than N
\* invocations of the function are in progress at once.
C15_AtMostNInProgress ==
    (~use_dask /\ n_jobs > 1) =>
        /\ workers \in {0, n_jobs}
        /\ Cardinality(Running) <= n_jobs

C15_Witness ==
    /\ n_jobs = 2
    /\ Cardinality(Running) = 2
    /\ Cardinality(Queued) = 2

\* The sweep evaluates, and the function raises for one of its combinations.
FunctionFails ==
    /\ ValidAxes
    /\ use_dask \/ (compute /\ (n_jobs = 1 \/ n_jobs = -1 \/ n_jobs > 1))
    /\ Failures(function, param_values, param_names) # {}

\* C16 as stated: the caller gets an EvaluationError that carries the
\* combination that failed.
C16_WrappedWithCombination ==
    (FunctionFails /\ Done) =>
        \E i \in DOMAIN combinations :
            result = EvaluationError(Invoke(function, all_inputs[i]), all_inputs[i])

\* C16 amended: the caller gets the exception of the function itself, the
\* object an invocation of the sweep raised, of the function's own type:
\* the engine neither wraps it nor adds the combination to it.
C16_PropagatesUnmodified ==
    (FunctionFails /\ Done) =>
        \E i \in DOMAIN combinations :
            /\ invocations[i] = 1
            /\ result = Invoke(function, all_inputs[i])
            /\ result.type = "UserError"

C16_Witness ==
    /\ pc = "raised"
    /\ use_dask
    /\ result.type = "UserError"
    /\ Len(combinations) = 2
    /\ invocations = <<1, 1>>

RepeatedCombination ==
    \E i, k \in DOMAIN combinations : i # k /\ combinations[i] = combinations[k]

\* the rows of the index that name cell c
RowsOf(c) == {i \in DOMAIN index.codes : index.codes[i] = c}

\* C17: when the index handed to the assembler has a repeated combination,
\* assembly raises and the sweep returns nothing; an index handed to the
\* assembler that has no repeated combination is the complete product of
\* its levels; and a returned result has every cell written by exactly one
\* row of the index, none filled, dropped or overwritten.
C17_AssemblyNeverFillsOrOverwrites ==
    /\ (assembler_input.called /\ RepeatedCombination) =>
          /\ pc = "raised"
          /\ result = ValueError("Cannot unstack MultiIndex containing duplicates")
    /\ (assembler_input.called /\ ~RepeatedCombination) =>
          \A c \in CodeSpace(index.levels) : Cardinality(RowsOf(c)) = 1
    /\ pc = "returned" =>
          /\ ~RepeatedCombination
          /\ DOMAIN result.data = CodeSpace(index.levels)
          /\ \A c \in DOMAIN result.data :
                /\ Cardinality(RowsOf(c)) = 1
                /\ \A i \in RowsOf(c) : result.data[c] = assembler_input.outs[i].data
                /\ \A f \in DOMAIN result.data[c] : result.data[c][f] # -1

C17_Witness ==
    /\ pc = "raised"
    /\ assembler_input.called
    /\ RepeatedCombination
    /\ ~use_dask
    /\ n_jobs = 1
    /\ Len(combinations) = 4

\* C18: with use_dask=True nothing depends on n_jobs: no pool is created
\* and nothing is submitted to one, the graph has one pending node per
\* combination of the axes, and the sweep ends with a result that the same
\* call with n_jobs = 1 has.
C18_WorkerCountIgnoredWithDask ==
    use_dask =>
        /\ workers = 0 /\ futures = <<>> /\ outputs = <<>> /\ exc_info = None
        /\ (ValidAxes /\ pc \notin {"alias", "call"}) =>
              [k \in DOMAIN tasks |-> tasks[k].inputs]
                  = [k \in 1..Prod(Lens(params)) |-> NestedInputs(k)]
        /\ (ValidAxes /\ pc = "raised") => result.msg # "max_workers must be greater than 0"
        /\ Done => result \in SweepResults(function, TRUE, compute, 1,
                                           param_values, param_names)

C18_Witness ==
    /\ use_dask
    /\ n_jobs = 0
    /\ pc = "returned"
    /\ Len(tasks) = 4

BoundedParallel == ValidAxes /\ ~use_dask /\ compute /\ (n_jobs = -1 \/ n_jobs > 1)

FailingPositions ==
    {k \in 1..Prod(Lens(params)) : Invoke(function, NestedInputs(k)).kind = "error"}

LowestFailingPosition == CHOOSE k \in FailingPositions : \A o \in FailingPositions : k <= o

\* C19: when combinations fail under the thread pool, the exception the
\* sweep takes from the futures, and the one it raises, is that of the
\* failing combination with the lowest position, whichever failure finished
\* first: a later failure that has finished is not taken while the lowest
\* one is still queued or running.
C19_LowestPositionFailureRaised ==
    (BoundedParallel /\ FailingPositions # {}) =>
        /\ exc_info # None =>
              /\ futures[LowestFailingPosition].state = "FINISHED"
              /\ exc_info = futures[LowestFailingPosition].outcome
              /\ exc_info = Invoke(function, NestedInputs(LowestFailingPosition))
        /\ pc = "raised" => result = Invoke(function, NestedInputs(LowestFailingPosition))
        /\ pc \notin {"assemble", "returned"}

\* Two workers, three failing combinations: the failure at position 3 has
\* finished while the one at position 2 still runs, and the collection,
\* having taken the output of position 1, has not taken it.
C19_Witness ==
    /\ BoundedParallel
    /\ workers = 2
    /\ Cardinality(FailingPositions) = 3
    /\ LowestFailingPosition = 2
    /\ pc = "collect"
    /\ Len(outputs) = 1
    /\ futures[2].state = "RUNNING"
    /\ futures[3].state = "FINISHED"
    /\ futures[3].outcome.kind = "error"
    /\ exc_info = None

\* C20: every eager sweep, the loop or the pool, with every call of the
\* function coming to its end and the pool threads scheduled fairly, ends:
\* it returns the assembled result or raises, and no submitted evaluation
\* is left queued or running.
C20_EagerSweepTerminates ==
    <>(Done /\ \A i \in DOMAIN futures : futures[i].state = "FINISHED")

\* Four evaluations went through a pool of one worker and the sweep returned.
C20_Witness ==
    /\ ~use_dask
    /\ pc = "returned"
    /\ workers = 1
    /\ Len(futures) = 4
    /\ \A i \in DOMAIN futures : futures[i].state = "FINISHED"
====
